---- MODULE Spec2Model ----
(***************************************************************************)
(* faststringmap: a read-only map from byte strings to values, stored as a *)
(* range-compressed trie in one flat node array (src/faststringmap.go).    *)
(*                                                                         *)
(* Go slices are modelled as TLA+ sequences.  Go indices are 0-based and   *)
(* are kept 0-based in the node fields (nextLo, valueOffset); an access    *)
(* store[i] of the code is store[i + 1] here.  A run-time panic of the Go  *)
(* code (nil dereference, index out of range) is an explicit outcome.      *)
(* nextLen and nextOffset are bytes and wrap at 256; nextLo, valueOffset   *)
(* and len are uint32 and stay far below 2^32 for the batches modelled.    *)
(***************************************************************************)
EXTENDS Integers, Sequences, FiniteSets, TLC

\* ---------------------------------------------------------------- bounds
MaxEntries == 2          \* entries in a construction batch
MaxKeyLen == 2           \* bytes in a key of the batch
NumProcs == 2            \* concurrent lookups (SpecConc)

\* ------------------------------------------------------- program constants
ByteMod == 256           \* nextLen, nextOffset and key bytes are Go bytes

\* Bytes the keys of a batch are made of (Spec): a node's children span 1
\* or 255 slots, 253 of them gaps.
KeyBytes == {1, 255}
\* Bytes the keys of a batch are made of (SpecWide): both ends of the byte
\* alphabet and a neighbour, so that spans 1, 2, 255 and 256 all occur.
WideBytes == {0, 1, 255}
\* Bytes of the looked-up keys: the key bytes, a byte in the gap and a
\* byte below every key byte of Spec.
ProbeBytes == {0, 1, 2, 255}

Strings(S, n) == UNION {[1..k -> S] : k \in 0..n}

BatchKeys == Strings(KeyBytes, MaxKeyLen)
ProbeKeys == Strings(ProbeBytes, MaxKeyLen)

\* MapEntry[T]: the i-th entry of a batch carries the value i, so that no
\* two entries of a batch have the same value and none has T's zero value.
MapEntry(k, v) == [Key |-> k, Value |-> v]
BatchOf(ks) == [i \in 1..Len(ks) |-> MapEntry(ks[i], i)]
Batches == {BatchOf(ks) : ks \in Strings(BatchKeys, MaxEntries)}
WideBatches == {BatchOf(ks) : ks \in Strings(Strings(WideBytes, MaxKeyLen), MaxEntries)}

\* The batches of the tests TestUintMapSimpleCase ("aaa", "aab"),
\* TestFastStringToUint32Empty ("", "a", "foo", "\xc3\x9f") and
\* TestFastStringToUint32BigSpan ("a!", "a~"), as bytes (SpecConc).
TestBatches ==
    { <<MapEntry(<<97, 97, 97>>, 1), MapEntry(<<97, 97, 98>>, 1)>>,
      <<MapEntry(<<>>, 1), MapEntry(<<97>>, 2), MapEntry(<<102, 111, 111>>, 3),
        MapEntry(<<195, 159>>, 4)>>,
      <<MapEntry(<<97, 33>>, 1), MapEntry(<<97, 126>>, 2)>> }
\* The keys of the tests, and "aa", "aaaa", "a0", "fo", "m", "\xc3", which
\* are in none of the batches.
TestKeys ==
    { <<97, 97, 97>>, <<97, 97, 98>>, <<>>, <<97>>, <<102, 111, 111>>, <<195, 159>>,
      <<97, 33>>, <<97, 126>>,
      <<97, 97>>, <<97, 97, 97, 97>>, <<97, 48>>, <<102, 111>>, <<109>>, <<195>> }

ZeroValue == 0           \* the zero value of T ("var t T")

\* ------------------------------------------------------------- data types
\* mapInternalNode[T]; the zero node is what make() allocates.
mapInternalNode == [nextLo |-> 0, nextLen |-> 0, nextOffset |-> 0, valueOffset |-> 0]

\* mapBuilder[T]{}; panicked records that the build hit a run-time panic.
mapBuilder == [stores |-> <<>>, values |-> <<>>, len |-> 0, panicked |-> FALSE]

\* A *Map[T] that was never bound to a built structure.
NilMap == [bound |-> FALSE, store |-> <<>>, values |-> <<>>]

\* ------------------------------------------------------------------ sort
\* Go's string "<": byte-lexicographic, a strict prefix sorts first.
RECURSIVE StrLess(_, _)
StrLess(a, b) ==
    IF b = <<>> THEN FALSE
    ELSE IF a = <<>> THEN TRUE
    ELSE IF a[1] # b[1] THEN a[1] < b[1]
    ELSE StrLess(Tail(a), Tail(b))

IsSorted(es) == \A i \in 1..(Len(es) - 1) : ~StrLess(es[i + 1].Key, es[i].Key)

\* sort.Slice is not stable: any ordering of the same entries that is
\* sorted by key is a possible outcome.
SortSlice(es) ==
    LET n == Len(es)
        perms == {p \in [1..n -> 1..n] : \A i, j \in 1..n : i # j => p[i] # p[j]}
    IN {s \in {[i \in 1..n |-> es[p[i]]] : p \in perms} : IsSorted(s)}

\* ---------------------------------------------------------------- builder
\* Mutant of allocateNodes: the block is appended, b.len is not advanced.
allocateNodesNoLen(b, n) ==
    [b EXCEPT !.stores = Append(@, [j \in 1..n |-> mapInternalNode])]

\* allocateNodes: a new block of n zero nodes, b.len += n.
allocateNodes(b, n) ==
    [b EXCEPT !.stores = Append(@, [j \in 1..n |-> mapInternalNode]),
              !.len = @ + n]

\* Mutant of appendValue: the slot recorded before the append, 0-based.
appendValueZeroBased(b, blk, off, v) ==
    [b EXCEPT !.values = Append(@, v),
              !.stores[blk][off].valueOffset = Len(b.values)]

\* Lines 68-69: append the value, record its 1-based slot in the node.
appendValue(b, blk, off, v) ==
    [b EXCEPT !.values = Append(@, v),
              !.stores[blk][off].valueOffset = Len(b.values) + 1]

\* Lines 78-79: highest next byte - lowest next byte + 1, in a byte.
spanOf(lo, hi) == (hi - lo + 1) % ByteMod

\* A child's position in its block, next[key byte - nextOffset], in a byte.
childIndex(byte, nextOffset) == (byte - nextOffset) % ByteMod

\* Lines 85-88: the end of the run of entries with the same byte as entry i.
RECURSIVE sameByteHi(_, _, _, _)
sameByteHi(es, entryIndex, i, hi) ==
    IF hi <= Len(es) /\ es[hi].Key[entryIndex + 1] = es[i].Key[entryIndex + 1]
    THEN sameByteHi(es, entryIndex, i, hi + 1)
    ELSE hi

\* makeEntry initializes the node at stores[blk][off] for the sorted
\* entries es, whose keys agree on their first entryIndex bytes.
\* Key[entryIndex] of a key of entryIndex bytes is an index out of range:
\* line 77 panics on the first such entry, line 78 on the last, line 86 on
\* one in between, and a panic abandons the build, so one test covers them.
\* next[i] of a block of fewer than i + 1 nodes panics at line 90.
RECURSIVE makeEntry(_, _, _, _, _)
RECURSIVE makeChildren(_, _, _, _, _, _)
makeEntry(b, blk, off, es, entryIndex) ==
    LET ends == Len(es[1].Key) = entryIndex
        b1 == IF ends THEN appendValue(b, blk, off, es[1].Value) ELSE b
        rest == IF ends THEN Tail(es) ELSE es
    IN  IF Len(rest) = 0 THEN b1
        ELSE IF \E j \in 1..Len(rest) : Len(rest[j].Key) <= entryIndex
        THEN [b1 EXCEPT !.panicked = TRUE]
        ELSE LET lo == rest[1].Key[entryIndex + 1]
                 hi == rest[Len(rest)].Key[entryIndex + 1]
                 span == spanOf(lo, hi)
                 b2 == [b1 EXCEPT !.stores[blk][off].nextOffset = lo,
                                  !.stores[blk][off].nextLen = span,
                                  !.stores[blk][off].nextLo = b1.len]
                 b3 == allocateNodes(b2, span)
             IN  makeChildren(b3, Len(b3.stores), lo, rest, entryIndex, 1)

\* The loop of lines 83-95 from entry i on; next is the block just allocated.
makeChildren(b, next, nextOffset, es, entryIndex, i) ==
    IF b.panicked \/ i > Len(es) THEN b
    ELSE LET iSameByteHi == sameByteHi(es, entryIndex, i, i + 1)
             ni == childIndex(es[i].Key[entryIndex + 1], nextOffset)
         IN  IF ni >= Len(b.stores[next])
             THEN [b EXCEPT !.panicked = TRUE]
             ELSE makeChildren(
                      makeEntry(b, next, ni + 1, SubSeq(es, i, iSameByteHi - 1),
                                entryIndex + 1),
                      next, nextOffset, es, entryIndex, iSameByteHi)

\* Mutant of build: an empty batch returns before the root is allocated.
buildNoRoot(sorted) ==
    IF Len(sorted) > 0
    THEN makeEntry(allocateNodes(mapBuilder, 1), 1, 1, sorted, 0)
    ELSE mapBuilder

\* Lines 44-48 of NewMap: the builder after the recursive descent.
build(sorted) ==
    LET b == allocateNodes(mapBuilder, 1)
    IN  IF Len(sorted) > 0 THEN makeEntry(b, 1, 1, sorted, 0) ELSE b

\* toMap: the blocks concatenated in allocation order.
RECURSIVE concat(_)
concat(blocks) ==
    IF blocks = <<>> THEN <<>> ELSE blocks[1] \o concat(Tail(blocks))

toMap(b) == [bound |-> TRUE, store |-> concat(b.stores), values |-> b.values]

\* ----------------------------------------------------------------- lookup
\* The result of an Index call: it panicked, or it returned index.
Panicked == [panic |-> TRUE, index |-> 0]
Returned(ix) == [panic |-> FALSE, index |-> ix]

\* Mutant of stringStep: the range test off by one, ni > nextLen.
stringStepOffByOne(node, byt) ==
    IF byt < node.nextOffset THEN -1
    ELSE LET ni == (byt - node.nextOffset) % ByteMod
         IN  IF ni > node.nextLen THEN -1 ELSE node.nextLo + ni

\* The body of IndexString's loop, lines 126-134: the index of the next
\* node after byte byt at this node, -1 for "return 0".
stringStep(node, byt) ==
    IF byt < node.nextOffset THEN -1
    ELSE LET ni == (byt - node.nextOffset) % ByteMod
         IN  IF ni >= node.nextLen THEN -1 ELSE node.nextLo + ni

\* IndexString: for i, n := 0, len(s); i < n; i++, at node index bv.
\* m.store[bv] of an index past the node array is an index out of range.
RECURSIVE indexStringFrom(_, _, _, _)
indexStringFrom(m, s, i, bv) ==
    IF bv >= Len(m.store) THEN Panicked
    ELSE IF i < Len(s)
    THEN LET nx == stringStep(m.store[bv + 1], s[i + 1])
         IN  IF nx < 0 THEN Returned(0) ELSE indexStringFrom(m, s, i + 1, nx)
    ELSE Returned(m.store[bv + 1].valueOffset)

\* m.store of a nil *Map is a nil dereference.
IndexString(m, s) ==
    IF ~m.bound THEN Panicked ELSE indexStringFrom(m, s, 0, 0)

\* Mutant of bytesStep: the lowest byte of the range rejected, b <= nextOffset.
bytesStepStrict(node, byt) ==
    IF byt <= node.nextOffset THEN -1
    ELSE LET ni == (byt - node.nextOffset) % ByteMod
         IN  IF ni >= node.nextLen THEN -1 ELSE node.nextLo + ni

\* The body of IndexBytes' loop, lines 150-157.
bytesStep(node, byt) ==
    IF byt < node.nextOffset THEN -1
    ELSE LET ni == (byt - node.nextOffset) % ByteMod
         IN  IF ni >= node.nextLen THEN -1 ELSE node.nextLo + ni

\* IndexBytes: for _, b := range s, at node index bv.
RECURSIVE indexBytesFrom(_, _, _)
indexBytesFrom(m, s, bv) ==
    IF bv >= Len(m.store) THEN Panicked
    ELSE IF s # <<>>
    THEN LET nx == bytesStep(m.store[bv + 1], Head(s))
         IN  IF nx < 0 THEN Returned(0) ELSE indexBytesFrom(m, Tail(s), nx)
    ELSE Returned(m.store[bv + 1].valueOffset)

IndexBytes(m, s) ==
    IF ~m.bound THEN Panicked ELSE indexBytesFrom(m, s, 0)

\* The result of a lookup: (t, ok), or a panic.
Result(t, ok) == [panic |-> FALSE, t |-> t, ok |-> ok]
Panic == [panic |-> TRUE, t |-> ZeroValue, ok |-> FALSE]

\* AtIndex: index != 0 && index-1 < len(m.values).
AtIndex(m, index) ==
    IF ~m.bound THEN Panic
    ELSE IF index # 0 /\ index - 1 < Len(m.values)
    THEN Result(m.values[index], TRUE)
    ELSE Result(ZeroValue, FALSE)

LookupString(m, s) ==
    LET ix == IndexString(m, s)
    IN  IF ix.panic THEN Panic ELSE AtIndex(m, ix.index)

LookupBytes(m, s) ==
    LET ix == IndexBytes(m, s)
    IN  IF ix.panic THEN Panic ELSE AtIndex(m, ix.index)

\* ------------------------------------------------------------------ state
VARIABLES
    entries,   \* the caller's slice, the argument of NewMap
    pc,        \* "start", "built", "panicNewMap" or "panicLookup"
    b,         \* NewMap's mapBuilder, as the build left it
    m,         \* the caller's map handle: NilMap until NewMap returns
    out,       \* the lookup call made and what it returned
    procs      \* the lookups in progress (SpecConc)

vars == <<entries, pc, b, m, out, procs>>

NoCall == [op |-> "none", key |-> <<>>, index |-> 0, res |-> Result(ZeroValue, FALSE)]
Idle == [pc |-> "idle", s |-> <<>>, i |-> 0, bv |-> 0, index |-> 0,
         res |-> Result(ZeroValue, FALSE)]

InitWith(batches) ==
    /\ entries \in batches
    /\ pc = "start"
    /\ b = mapBuilder
    /\ m = NilMap
    /\ out = NoCall
    /\ procs = [p \in 1..NumProcs |-> Idle]

Init == InitWith(Batches)

\* NewMap(entries): sorts the caller's slice in place, builds, and returns
\* the map; a panic in the build leaves the caller without a map.
NewMap ==
    /\ pc = "start"
    /\ out.op = "none"
    /\ \E sorted \in SortSlice(entries) :
          LET bb == build(sorted)
          IN  /\ entries' = sorted
              /\ b' = bb
              /\ pc' = IF bb.panicked THEN "panicNewMap" ELSE "built"
              /\ m' = IF bb.panicked THEN m ELSE toMap(bb)
    /\ UNCHANGED <<out, procs>>

\* m.LookupString(s) as one call, through the handle as it is.  A lookup
\* assigns nothing but its result, so a second call would start from the
\* state the first one started from: a run makes one.
CallLookupString(s) ==
    /\ pc \in {"start", "built"}
    /\ out.op = "none"
    /\ LET r == LookupString(m, s)
       IN  /\ out' = [op |-> "LookupString", key |-> s,
                      index |-> IndexString(m, s).index, res |-> r]
           /\ pc' = IF r.panic THEN "panicLookup" ELSE pc
    /\ UNCHANGED <<entries, b, m, procs>>

\* m.LookupBytes(s) as one call.
CallLookupBytes(s) ==
    /\ pc \in {"start", "built"}
    /\ out.op = "none"
    /\ LET r == LookupBytes(m, s)
       IN  /\ out' = [op |-> "LookupBytes", key |-> s,
                      index |-> IndexBytes(m, s).index, res |-> r]
           /\ pc' = IF r.panic THEN "panicLookup" ELSE pc
    /\ UNCHANGED <<entries, b, m, procs>>

\* Next of Spec: the caller builds the map, then looks keys up.
Next ==
    \/ NewMap
    \/ \E s \in ProbeKeys : pc = "built" /\ CallLookupString(s)
    \/ \E s \in ProbeKeys : pc = "built" /\ CallLookupBytes(s)

Spec == Init /\ [][Next]_vars

\* The same program on batches whose keys reach both ends of the byte
\* alphabet, and with lookups through the handle before NewMap returns.
InitWide == InitWith(WideBatches)

NextWide ==
    \/ NewMap
    \/ \E s \in ProbeKeys : CallLookupString(s)
    \/ \E s \in ProbeKeys : CallLookupBytes(s)

SpecWide == InitWide /\ [][NextWide]_vars

\* ------------------------------------------------------------ concurrency
\* NumProcs goroutines each run m.LookupString(s) on the built map, one
\* node read at a time: the loop of IndexString, then AtIndex.
GoLookupString(p, s) ==
    /\ pc = "built"
    /\ procs[p].pc = "idle"
    /\ procs' = [procs EXCEPT ![p] = [Idle EXCEPT !.pc = "loop", !.s = s]]
    /\ UNCHANGED <<entries, pc, b, m, out>>

\* Mutant of LoopStep: the lookup keeps the index it found in the root
\* node, where the next lookup of the empty key reads it.
LoopStepCaching(p) ==
    /\ procs[p].pc = "loop"
    /\ LET q == procs[p]
           node == m.store[q.bv + 1]
           nx == stringStep(node, q.s[q.i + 1])
       IN  IF q.i < Len(q.s)
           THEN /\ procs' = [procs EXCEPT ![p] =
                       IF nx < 0
                       THEN [q EXCEPT !.pc = "atIndex", !.index = 0]
                       ELSE [q EXCEPT !.bv = nx, !.i = q.i + 1]]
                /\ m' = m
           ELSE /\ procs' = [procs EXCEPT ![p] =
                       [q EXCEPT !.pc = "atIndex", !.index = node.valueOffset]]
                /\ m' = [m EXCEPT !.store[1].valueOffset = node.valueOffset]
    /\ UNCHANGED <<entries, pc, b, out>>

\* One evaluation of the loop condition of IndexString and, if it holds,
\* of the loop body; else lines 137-141.
LoopStep(p) ==
    /\ procs[p].pc = "loop"
    /\ LET q == procs[p]
           node == m.store[q.bv + 1]
           nx == stringStep(node, q.s[q.i + 1])
       IN  procs' = [procs EXCEPT ![p] =
               IF q.i < Len(q.s)
               THEN IF nx < 0
                    THEN [q EXCEPT !.pc = "atIndex", !.index = 0]
                    ELSE [q EXCEPT !.bv = nx, !.i = q.i + 1]
               ELSE [q EXCEPT !.pc = "atIndex", !.index = node.valueOffset]]
    /\ UNCHANGED <<entries, pc, b, m, out>>

\* m.AtIndex(index), and LookupString returns.
AtIndexStep(p) ==
    /\ procs[p].pc = "atIndex"
    /\ procs' = [procs EXCEPT ![p].pc = "done",
                              ![p].res = AtIndex(m, procs[p].index)]
    /\ UNCHANGED <<entries, pc, b, m, out>>

InitConc == InitWith(TestBatches)

NextConc ==
    \/ NewMap
    \/ \E p \in 1..NumProcs, s \in TestKeys : GoLookupString(p, s)
    \/ \E p \in 1..NumProcs : LoopStep(p)
    \/ \E p \in 1..NumProcs : AtIndexStep(p)

SpecConc == InitConc /\ [][NextConc]_vars

\* ================================================================ claims
KeysOf(es) == {es[i].Key : i \in 1..Len(es)}
DistinctKeys(es) == \A i, j \in 1..Len(es) : i # j => es[i].Key # es[j].Key
\* NewMap was called: it panicked, or the handle is bound to its result.
NewMapCalled == pc = "panicNewMap" \/ m.bound
IsPrefix(p, k) == Len(p) <= Len(k) /\ SubSeq(k, 1, Len(p)) = p

\* C1: for every batch with pairwise distinct keys, after m = NewMap(batch)
\* LookupString(k) and LookupBytes(k) return (v, true) for every (k, v) of
\* the batch.
C1_RoundTrip ==
    (NewMapCalled /\ DistinctKeys(entries)) =>
        /\ m.bound
        /\ \A i \in 1..Len(entries) :
              /\ LookupString(m, entries[i].Key) = Result(entries[i].Value, TRUE)
              /\ LookupBytes(m, entries[i].Key) = Result(entries[i].Value, TRUE)

\* C2: on a built map, a lookup of a byte sequence that is not a key of the
\* batch returns found = false (and the zero value), by either entry point.
C2_NoFalsePositive ==
    (m.bound /\ out.op # "none" /\ out.key \notin KeysOf(entries)) =>
        out.res = Result(ZeroValue, FALSE)

\* A lookup that ended on a gap slot of the root's 255-slot block.
C2_Witness ==
    /\ m.bound
    /\ KeysOf(entries) = {<<1>>, <<255, 1>>}
    /\ out.op = "LookupString"
    /\ out.key = <<2>>
    /\ ~out.res.ok

\* C3: a lookup through a handle that was never bound to a built structure
\* returns found = false and does not panic.
C3_NilLookupNotFound ==
    (out.op # "none" /\ ~m.bound) => out.res = Result(ZeroValue, FALSE)

\* C4: NewMap returns a structure for every batch: it never panics, be the
\* batch empty, with a key twice, or of duplicates only.
C4_ConstructionTotal == pc # "panicNewMap"

\* C5: NewMap leaves the caller's entries as they were: the same pairs at
\* the same positions.
C5_InputUntouched == [][pc' = "built" => entries' = entries]_vars

\* C6: on a built map LookupString(s) and LookupBytes(s) return the same
\* (value, found) and IndexString(s) = IndexBytes(s).
C6_TextBytesEquivalence ==
    (m.bound /\ out.op # "none") =>
        /\ out.res = LookupString(m, out.key)
        /\ out.res = LookupBytes(m, out.key)
        /\ Returned(out.index) = IndexString(m, out.key)
        /\ Returned(out.index) = IndexBytes(m, out.key)

C6_Witness ==
    /\ m.bound
    /\ out.op = "LookupBytes"
    /\ out.key = <<255, 1>>
    /\ out.res.ok
    /\ Len(entries) = 2

\* C7: NewMap of an empty batch yields one node, the zero root, and no
\* values; every lookup on it returns found = false and none panics.
C7_DegenerateStructure ==
    (NewMapCalled /\ Len(entries) = 0) =>
        /\ pc = "built"
        /\ m.bound
        /\ m.store = <<mapInternalNode>>
        /\ m.values = <<>>
        /\ out.res = Result(ZeroValue, FALSE)
        /\ out.index = 0

C7_Witness ==
    /\ m.bound
    /\ Len(entries) = 0
    /\ out.op = "LookupBytes"
    /\ out.key = <<>>

\* C8: lookups interleaved step by step over one built map write neither
\* the node array nor the value array, and each returns what LookupString
\* returns when run alone on that map.
C8_ConcurrentLookups ==
    /\ [](\A p \in 1..NumProcs :
            procs[p].pc = "done" => procs[p].res = LookupString(m, procs[p].s))
    /\ [][m.bound => m' = m]_vars

\* Two lookups in flight: one past its first byte, the other returned a
\* value.
C8_Witness ==
    \E p, q \in 1..NumProcs :
        /\ p # q
        /\ procs[p].pc = "loop" /\ procs[p].i >= 1
        /\ procs[q].pc = "done" /\ procs[q].res.ok /\ Len(procs[q].s) >= 2

\* The node the build left for prefix p, as an index into the flattened
\* blocks; -1 if the walk leaves the blocks.
RECURSIVE nodeOf(_, _, _)
nodeOf(store, p, bv) ==
    IF bv < 0 \/ bv >= Len(store) THEN -1
    ELSE IF p = <<>> THEN bv
    ELSE LET node == store[bv + 1]
             ni == Head(p) - node.nextOffset
         IN  IF ni < 0 \/ ni >= node.nextLen THEN -1
             ELSE nodeOf(store, Tail(p), node.nextLo + ni)

\* The prefixes some key passes strictly through, and the next bytes there.
ThroughPrefixes(es) ==
    UNION {{SubSeq(k, 1, j) : j \in 0..(Len(k) - 1)} : k \in KeysOf(es)}
NextBytes(es, p) == {k[Len(p) + 1] : k \in {x \in KeysOf(es) : x # p /\ IsPrefix(p, x)}}
MinOf(S) == CHOOSE x \in S : \A y \in S : x <= y
MaxOf(S) == CHOOSE x \in S : \A y \in S : y <= x
RECURSIVE SumSpans(_, _)
SumSpans(es, ps) ==
    IF ps = {} THEN 0
    ELSE LET p == CHOOSE x \in ps : TRUE
         IN  MaxOf(NextBytes(es, p)) - MinOf(NextBytes(es, p)) + 1
                 + SumSpans(es, ps \ {p})

\* C9: in the structure built from distinct keys, every node some key
\* passes strictly through has nextOffset = the least next byte and
\* nextLen = greatest - least + 1 (1..256), and that many child slots.
C9_MinimalByteRange ==
    (NewMapCalled /\ DistinctKeys(entries)) =>
        LET store == concat(b.stores)
            ps == ThroughPrefixes(entries)
        IN  /\ \A p \in ps :
                  LET bv == nodeOf(store, p, 0)
                      lo == MinOf(NextBytes(entries, p))
                      hi == MaxOf(NextBytes(entries, p))
                  IN  /\ bv >= 0
                      /\ store[bv + 1].nextOffset = lo
                      /\ store[bv + 1].nextLen = hi - lo + 1
            /\ Len(store) = 1 + SumSpans(entries, ps)

\* The rank of key k among the keys of the batch, byte-lexicographic.
Rank(es, k) == Cardinality({x \in KeysOf(es) : StrLess(x, k)})

\* C10: the built value array has one element per entry; the key of rank r
\* has index r + 1 and its value at values[r]; an index is 0 exactly for
\* the keys not in the map; AtIndex(i) finds exactly 1 <= i <= n.
C10_SortedValueOrder ==
    m.bound =>
        /\ Len(m.values) = Len(entries)
        /\ \A i \in 1..Len(entries) :
              LET r == Rank(entries, entries[i].Key)
              IN  /\ IndexString(m, entries[i].Key) = Returned(r + 1)
                  /\ IndexBytes(m, entries[i].Key) = Returned(r + 1)
                  /\ m.values[r + 1] = entries[i].Value
        /\ out.op # "none" => (out.index = 0 <=> out.key \notin KeysOf(entries))
        /\ \A i \in 0..(Len(entries) + 1) :
              AtIndex(m, i).ok <=> (1 <= i /\ i <= Len(entries))

\* The second key in order was the first entry the caller wrote.
C10_Witness ==
    /\ m.bound
    /\ Len(entries) = 2
    /\ out.op = "LookupString"
    /\ out.index = 2
    /\ out.res = Result(1, TRUE)

\* The index in the flattened array of the first node of block k.
RECURSIVE blockStart(_, _)
blockStart(stores, k) ==
    IF k <= 1 THEN 0 ELSE blockStart(stores, k - 1) + Len(stores[k - 1])

\* The node indices IndexString visits for s from node bv on, in order.
RECURSIVE visited(_, _, _, _)
visited(mm, s, i, bv) ==
    IF bv >= Len(mm.store) \/ i >= Len(s) THEN <<bv>>
    ELSE LET nx == stringStep(mm.store[bv + 1], s[i + 1])
         IN  IF nx < 0 THEN <<bv>> ELSE <<bv>> \o visited(mm, s, i + 1, nx)

\* The nodes of store that have a child block; the sum of their nextLen.
Parents(store) == {i \in 0..(Len(store) - 1) : store[i + 1].nextLen > 0}
RECURSIVE SumLen(_, _)
SumLen(store, ps) ==
    IF ps = {} THEN 0
    ELSE LET i == CHOOSE x \in ps : TRUE
         IN  store[i + 1].nextLen + SumLen(store, ps \ {i})

\* C11: in the flattened node array of a built map every node i with
\* nextLen > 0 has i < nextLo and nextLo + nextLen within the array, child
\* blocks of distinct nodes are disjoint and every index but 0 is in exactly
\* one; nextLo addresses the block the build allocated for the node; a
\* lookup of a key of L bytes makes at most L advances, each to a greater
\* index inside the array.  The array is examined as NewMap returned it (a
\* lookup assigns only out), the walk at every lookup call.
C11_TreeShape ==
    /\ (m.bound /\ out.op = "none") =>
          LET store == m.store
              n == Len(store)
              ps == Parents(store)
              lo(i) == store[i + 1].nextLo
              hi(i) == store[i + 1].nextLo + store[i + 1].nextLen
          IN  /\ n >= 1
              /\ \A i \in ps : i < lo(i) /\ hi(i) <= n
              /\ \A i, j \in ps : i # j => (hi(i) <= lo(j) \/ hi(j) <= lo(i))
              /\ \A x \in 1..(n - 1) :
                    Cardinality({i \in ps : lo(i) <= x /\ x < hi(i)}) = 1
              /\ SumLen(store, ps) = n - 1
              /\ \A i \in ps :
                    \E k \in 2..Len(b.stores) :
                        /\ blockStart(b.stores, k) = lo(i)
                        /\ Len(b.stores[k]) = hi(i) - lo(i)
                        /\ SubSeq(store, lo(i) + 1, hi(i)) = b.stores[k]
    /\ (m.bound /\ out.op # "none") =>
          LET path == visited(m, out.key, 0, 0)
          IN  /\ ~out.res.panic
              /\ Len(path) - 1 <= Len(out.key)
              /\ \A j \in 1..Len(path) : path[j] < Len(m.store)
              /\ \A j \in 1..(Len(path) - 1) : path[j] < path[j + 1]

\* Four blocks (the root, its 255 children, a block under each of two of
\* them) and a lookup that advanced twice.
C11_Witness ==
    /\ m.bound
    /\ Len(b.stores) = 4
    /\ Cardinality(Parents(m.store)) = 3
    /\ out.op = "LookupString"
    /\ Len(visited(m, out.key, 0, 0)) = 3
    /\ out.res.ok

====
